---------------------------- MODULE Spec2Model ----------------------------
(***************************************************************************)
(* A model of the Snake game of src/main.cpp: the game field, the snake,   *)
(* the fruit and the loop of game_logic_t::game_loop.                      *)
(*                                                                         *)
(* The size of the field is fixed in a behaviour. Spec plays on a square    *)
(* field scaled down from 10 to FieldSide, so that every snake shape, up   *)
(* to the one that fills the field, is explored; ScenarioSpec plays the    *)
(* opening of a session on the 10 x 10 field of the source; AtSpec calls   *)
(* game_field_t::at on fields of every height and width up to MaxAtSide.   *)
(***************************************************************************)
EXTENDS Integers, Sequences, FiniteSets, TLC

(* ----------------------------- bounds ---------------------------------- *)

\* side of the square field of Spec (10 in the source)
FieldSide == 3

\* the largest height and width of a field of AtSpec
MaxAtSide == 3

(* ------------------------ program constants ---------------------------- *)

max_wait_time_ms == 160

\* globals::field_width and globals::field_height as the source sets them
globals_field_width == 10

globals_field_height == 10

\* game_field_t::cell_type
EMPTY == "EMPTY"

SNAKE_HEAD == "SNAKE_HEAD"

SNAKE_BODY == "SNAKE_BODY"

FRUIT == "FRUIT"

ERROR == "ERROR"

\* the values a cell of m_field holds
cell_type == {EMPTY, SNAKE_HEAD, SNAKE_BODY, FRUIT}

\* game_logic_t::direction_type
UP == "UP"

DOWN == "DOWN"

LEFT == "LEFT"

RIGHT == "RIGHT"

direction_type == {UP, DOWN, LEFT, RIGHT}

\* SDL scancodes (SDL_scancode.h) of the keys the loop looks at, and of the
\* key m_last_pressed_key starts with
SDL_SCANCODE_G == 10

SDL_SCANCODE_ESCAPE == 41

SDL_SCANCODE_RIGHT == 79

SDL_SCANCODE_LEFT == 80

SDL_SCANCODE_DOWN == 81

SDL_SCANCODE_UP == 82

\* the scancodes a key-down event carries in the model
Scancodes == {SDL_SCANCODE_G, SDL_SCANCODE_ESCAPE, SDL_SCANCODE_RIGHT,
              SDL_SCANCODE_LEFT, SDL_SCANCODE_DOWN, SDL_SCANCODE_UP}

\* the time, in ms, one loop iteration can take (SDL_GetTicks differences)
ElapsedTimes == {0, max_wait_time_ms \div 2,
                 2 * max_wait_time_ms + max_wait_time_ms \div 2}

(* ------------------------------ state ---------------------------------- *)

VARIABLES
    field_width,          \* game_field_t::width
    field_height,         \* game_field_t::height
    m_field,              \* game_field_t::m_field, a function on Cells
    m_snake_positions,    \* snake_t::m_snake_positions, head first
    m_position,           \* fruit_t::m_position
    pos,                  \* the local pos of fruit_t::gen_new_position
    m_game_running,       \* game_logic_t::m_game_running
    m_score,              \* game_logic_t::m_score
    m_direction,          \* game_logic_t::m_direction
    m_last_pressed_key,   \* event_t::m_last_pressed_key
    m_quit,               \* event_t::m_quit
    waited_time,          \* the local waited_time of game_loop
    pc,                   \* the position of game_loop
    at_call,              \* a call of game_field_t::at: arguments and result
    escape_pending,       \* history: Escape was pressed since the last tick
    tick_count            \* history: the ticks run so far (negative: not
                          \* counted)

vars == <<field_width, field_height, m_field, m_snake_positions, m_position,
          pos, m_game_running, m_score, m_direction, m_last_pressed_key,
          m_quit, waited_time, pc, at_call, escape_pending, tick_count>>

\* what no step of the game writes: the size of the field and the call of at
fixed == <<field_width, field_height, at_call>>

\* the history variables
history == <<escape_pending, tick_count>>

(* ---------------------------- positions -------------------------------- *)

\* position_t: <<i, j>>, i the row and j the column
position_t(t_i, t_j) == <<t_i, t_j>>

\* the cells of m_field: height rows of width columns
Cells == (0 .. field_height - 1) \X (0 .. field_width - 1)

InField(p) == p \in Cells

\* game_field_t::game_field_t: every line filled with EMPTY
game_field_t == [c \in Cells |-> EMPTY]

\* game_field_t::operator() const. std::array::operator[] checks nothing: an
\* index outside the array is undefined behaviour, so the read yields any
\* cell value.
FieldRead(field, p) == IF InField(p) THEN {field[p]} ELSE cell_type

\* game_field_t::at: the values the call can return. Past its test the cell
\* is read unchecked.
at(field, t_i, t_j) ==
    IF t_i >= field_width \/ t_i < 0 \/ t_j >= field_height \/ t_j < 0
    THEN {ERROR}
    ELSE FieldRead(field, position_t(t_i, t_j))

(* ------------------------------ snake ---------------------------------- *)

\* snake_t::update_field: the front is the head, every other position body
update_field(snake, field) ==
    [c \in Cells |->
        IF c = snake[1] THEN SNAKE_HEAD
        ELSE IF \E k \in 2 .. Len(snake) : snake[k] = c THEN SNAKE_BODY
        ELSE field[c]]

\* is_space_for_snake without its test: every cell has space
is_space_for_snake_any(field, t_pos) == TRUE

\* snake_t::is_space_for_snake
is_space_for_snake(field, t_pos) ==
    field[t_pos] = EMPTY \/ field[t_pos] = FRUIT

\* the result of a snake operation: thrown, or the new list and field
Thrown(snake, field) == [thrown |-> TRUE, snake |-> snake, field |-> field]

Done(snake, field) == [thrown |-> FALSE, snake |-> snake, field |-> field]

\* pop_back_snake_body without the write of EMPTY to the cell it leaves
pop_back_snake_body_leaves_cell(snake, field) ==
    Done(SubSeq(snake, 1, Len(snake) - 1), field)

\* snake_t::pop_back_snake_body
pop_back_snake_body(snake, field) ==
    LET back == snake[Len(snake)]
    IN  Done(SubSeq(snake, 1, Len(snake) - 1), [field EXCEPT ![back] = EMPTY])

\* emplace_front followed by update_field, the tail of every lengthen_snake_*
EmplaceFront(snake, field, new_head) ==
    LET longer == <<new_head>> \o snake
    IN  Done(longer, update_field(longer, field))

\* snake_t that starts one row and one column further
snake_t_off_by_one(field) ==
    EmplaceFront(<<>>, field,
                 position_t(field_height \div 2, field_width \div 2))

\* snake_t::snake_t
snake_t(field) ==
    EmplaceFront(<<>>, field,
                 position_t(field_height \div 2 - 1, field_width \div 2 - 1))

lengthen_snake_up(snake, field) ==
    LET head_pos == snake[1]
        next == position_t(head_pos[1] - 1, head_pos[2])
    IN  IF head_pos[1] <= 0 THEN Thrown(snake, field)
        ELSE IF ~is_space_for_snake(field, next) THEN Thrown(snake, field)
        ELSE EmplaceFront(snake, field, next)

lengthen_snake_down(snake, field) ==
    LET head_pos == snake[1]
        next == position_t(head_pos[1] + 1, head_pos[2])
    IN  IF head_pos[1] >= field_height - 1 THEN Thrown(snake, field)
        ELSE IF ~is_space_for_snake(field, next) THEN Thrown(snake, field)
        ELSE EmplaceFront(snake, field, next)

lengthen_snake_left(snake, field) ==
    LET head_pos == snake[1]
        next == position_t(head_pos[1], head_pos[2] - 1)
    IN  IF head_pos[2] <= 0 THEN Thrown(snake, field)
        ELSE IF ~is_space_for_snake(field, next) THEN Thrown(snake, field)
        ELSE EmplaceFront(snake, field, next)

\* lengthen_snake_right without the call of is_space_for_snake
lengthen_snake_right_unchecked(snake, field) ==
    LET head_pos == snake[1]
        next == position_t(head_pos[1], head_pos[2] + 1)
    IN  IF head_pos[2] >= field_width - 1 THEN Thrown(snake, field)
        ELSE EmplaceFront(snake, field, next)

lengthen_snake_right(snake, field) ==
    LET head_pos == snake[1]
        next == position_t(head_pos[1], head_pos[2] + 1)
    IN  IF head_pos[2] >= field_width - 1 THEN Thrown(snake, field)
        ELSE IF ~is_space_for_snake(field, next) THEN Thrown(snake, field)
        ELSE EmplaceFront(snake, field, next)

\* move_* that pops the back although lengthen has thrown
AndPopBack_always(r) ==
    LET popped == pop_back_snake_body(r.snake, r.field)
    IN  [thrown |-> r.thrown, snake |-> popped.snake, field |-> popped.field]

\* move_*: lengthen, then pop the back; an exception of lengthen leaves both
AndPopBack(r) ==
    IF r.thrown THEN r ELSE pop_back_snake_body(r.snake, r.field)

move_up(snake, field) == AndPopBack(lengthen_snake_up(snake, field))

move_down(snake, field) == AndPopBack(lengthen_snake_down(snake, field))

move_left(snake, field) == AndPopBack(lengthen_snake_left(snake, field))

\* move_right that pops the back before it lengthens
move_right_pops_first(snake, field) ==
    IF Len(snake) = 1 THEN AndPopBack(lengthen_snake_right(snake, field))
    ELSE LET popped == pop_back_snake_body(snake, field)
         IN  lengthen_snake_right(popped.snake, popped.field)

move_right(snake, field) == AndPopBack(lengthen_snake_right(snake, field))


(* ------------------------------ fruit ---------------------------------- *)

\* what dist(rng), dist(rng) can yield: both coordinates in 0 .. height - 1
SamplePositions == (0 .. field_height - 1) \X (0 .. field_height - 1)

\* fruit_t::update_field
fruit_update_field(field, position) == [field EXCEPT ![position] = FRUIT]

(* ------------------------------ events --------------------------------- *)

\* the events SDL_PollEvent hands out
SDL_QUIT == [type |-> "SDL_QUIT"]

SDL_KEYDOWN(scancode) == [type |-> "SDL_KEYDOWN", scancode |-> scancode]

SDL_KEYUP(scancode) == [type |-> "SDL_KEYUP", scancode |-> scancode]

Events == {SDL_QUIT} \cup {SDL_KEYDOWN(k) : k \in Scancodes}
                     \cup {SDL_KEYUP(k) : k \in Scancodes}

\* event_t::get_key: the scancode returned as a (signed, 8 bit) char
get_key(last_pressed_key) == ((last_pressed_key + 128) % 256) - 128

(* --------------------------- game logic -------------------------------- *)

\* the position one step from p in direction d
Step(p, d) ==
    CASE d = UP    -> position_t(p[1] - 1, p[2])
      [] d = DOWN  -> position_t(p[1] + 1, p[2])
      [] d = LEFT  -> position_t(p[1], p[2] - 1)
      [] d = RIGHT -> position_t(p[1], p[2] + 1)

\* game_logic_t::is_fruit_in_direction: the values the unchecked read of the
\* cell ahead can compare equal to FRUIT with
is_fruit_in_direction(field, snake, direction) ==
    {c = FRUIT : c \in FieldRead(field, Step(snake[1], direction))}

\* the switch without the test of the case SDL_SCANCODE_DOWN
SwitchDirection_down_unguarded(key, direction) ==
    CASE key = SDL_SCANCODE_UP    -> IF direction = DOWN THEN direction ELSE UP
      [] key = SDL_SCANCODE_LEFT  -> IF direction = RIGHT THEN direction ELSE LEFT
      [] key = SDL_SCANCODE_DOWN  -> DOWN
      [] key = SDL_SCANCODE_RIGHT -> IF direction = LEFT THEN direction ELSE RIGHT
      [] OTHER -> direction

\* the switch on event.get_key() in game_loop: the new heading
SwitchDirection(key, direction) ==
    CASE key = SDL_SCANCODE_UP    -> IF direction = DOWN THEN direction ELSE UP
      [] key = SDL_SCANCODE_LEFT  -> IF direction = RIGHT THEN direction ELSE LEFT
      [] key = SDL_SCANCODE_DOWN  -> IF direction = UP THEN direction ELSE DOWN
      [] key = SDL_SCANCODE_RIGHT -> IF direction = LEFT THEN direction ELSE RIGHT
      [] OTHER -> direction

\* the switch on event.get_key() in game_loop: the running flag
SwitchRunning(key, running) ==
    IF key = SDL_SCANCODE_ESCAPE THEN FALSE ELSE running

lengthen_snake(direction, snake, field) ==
    CASE direction = UP    -> lengthen_snake_up(snake, field)
      [] direction = DOWN  -> lengthen_snake_down(snake, field)
      [] direction = LEFT  -> lengthen_snake_left(snake, field)
      [] direction = RIGHT -> lengthen_snake_right(snake, field)

move_snake(direction, snake, field) ==
    CASE direction = UP    -> move_up(snake, field)
      [] direction = DOWN  -> move_down(snake, field)
      [] direction = LEFT  -> move_left(snake, field)
      [] direction = RIGHT -> move_right(snake, field)

\* handle_movement that calls move_* with a fruit ahead too
handle_movement_never_grows(direction, fruit_ahead, running, snake, field) ==
    LET r == move_snake(direction, snake, field)
    IN  [snake   |-> r.snake,
         field   |-> r.field,
         running |-> IF r.thrown THEN FALSE ELSE running,
         relocate |-> fruit_ahead /\ ~r.thrown]

\* handle_movement whose catch blocks leave m_game_running
handle_movement_swallows(direction, fruit_ahead, running, snake, field) ==
    LET r == IF fruit_ahead THEN lengthen_snake(direction, snake, field)
             ELSE move_snake(direction, snake, field)
    IN  [snake   |-> r.snake,
         field   |-> r.field,
         running |-> running,
         relocate |-> fruit_ahead /\ ~r.thrown]

\* game_logic_t::handle_movement up to the call of fruit_t::new_position:
\* the snake operation's result, whether the running flag survives it, and
\* whether new_position is entered
handle_movement(direction, fruit_ahead, running, snake, field) ==
    LET r == IF fruit_ahead THEN lengthen_snake(direction, snake, field)
             ELSE move_snake(direction, snake, field)
    IN  [snake   |-> r.snake,
         field   |-> r.field,
         running |-> IF r.thrown THEN FALSE ELSE running,
         relocate |-> fruit_ahead /\ ~r.thrown]

(* ------------------------------ Init ----------------------------------- *)

\* game_loop on a field of the given size, after field{} and
\* snake{ field }, inside the constructor of fruit: gen_new_position has
\* drawn its first sample. The members of the game logic and of event hold
\* their default initializers.
GameStart(width, height) ==
    /\ field_width = width
    /\ field_height = height
    /\ LET s == snake_t(game_field_t)
       IN  /\ m_field = s.field
           /\ m_snake_positions = s.snake
    /\ m_position = position_t(0, 0)
    /\ pos \in SamplePositions
    /\ m_game_running = TRUE
    /\ m_score = 0
    /\ m_direction = UP
    /\ m_last_pressed_key = SDL_SCANCODE_G
    /\ m_quit = FALSE
    /\ waited_time = 0
    /\ pc = "gen_new_position"
    /\ at_call = [i |-> 0, j |-> 0, result |-> "none"]
    /\ escape_pending = FALSE

Init ==
    /\ GameStart(FieldSide, FieldSide)
    /\ tick_count = -1

(* ----------------------------- actions --------------------------------- *)

\* fruit_t::gen_new_position, one turn of the while loop: the sample is not
\* EMPTY and another one is drawn
GenResample ==
    /\ pc = "gen_new_position"
    /\ m_field[pos] # EMPTY
    /\ pos' \in SamplePositions
    /\ UNCHANGED <<m_field, m_snake_positions, m_position, m_game_running,
                   m_score, m_direction, m_last_pressed_key, m_quit,
                   waited_time, pc, fixed, history>>

\* gen_new_position whose loop rejects the head's cell only
GenReturn_avoids_head_only ==
    /\ pc = "gen_new_position"
    /\ m_field[pos] # SNAKE_HEAD
    /\ m_position' = pos
    /\ m_field' = fruit_update_field(m_field, pos)
    /\ pos' = position_t(0, 0)
    /\ waited_time' = 0
    /\ pc' = "loop"
    /\ UNCHANGED <<m_snake_positions, m_game_running, m_score, m_direction,
                   m_last_pressed_key, m_quit, fixed, history>>

\* fruit_t::gen_new_position returns an EMPTY sample; the constructor of
\* fruit_t or new_position stores it and marks the cell. Control is back in
\* game_loop: before the loop (waited_time{ 0 }) or at waited_time = 0.
GenReturn ==
    /\ pc = "gen_new_position"
    /\ m_field[pos] = EMPTY
    /\ m_position' = pos
    /\ m_field' = fruit_update_field(m_field, pos)
    /\ pos' = position_t(0, 0)
    /\ waited_time' = 0
    /\ pc' = "loop"
    /\ UNCHANGED <<m_snake_positions, m_game_running, m_score, m_direction,
                   m_last_pressed_key, m_quit, fixed, history>>

\* an iteration that polls the events before it draws
LoopEnter_polls_first(elapsed_time) ==
    /\ pc = "loop"
    /\ m_game_running /\ ~m_quit
    /\ waited_time' = waited_time + elapsed_time
    /\ pc' = "poll_events"
    /\ UNCHANGED <<m_field, m_snake_positions, m_position, pos,
                   m_game_running, m_score, m_direction, m_last_pressed_key,
                   m_quit, fixed, history>>

\* the while condition holds: the elapsed time is added to waited_time
LoopEnter(elapsed_time) ==
    /\ pc = "loop"
    /\ m_game_running /\ ~m_quit
    /\ waited_time' = waited_time + elapsed_time
    /\ pc' = "draw"
    /\ UNCHANGED <<m_field, m_snake_positions, m_position, pos,
                   m_game_running, m_score, m_direction, m_last_pressed_key,
                   m_quit, fixed, history>>

\* a draw that wipes the fruit's cell off the field
Draw_wipes_fruit ==
    /\ pc = "draw"
    /\ pc' = "poll_events"
    /\ m_field' = [c \in Cells |-> IF m_field[c] = FRUIT THEN EMPTY
                                    ELSE m_field[c]]
    /\ UNCHANGED <<m_snake_positions, m_position, pos,
                   m_game_running, m_score, m_direction, m_last_pressed_key,
                   m_quit, waited_time, fixed, history>>

\* window.set_title, field.draw and window.update: the length of the snake
\* and the field are read and the window, which is no state of the game, is
\* written; poll_events is entered
Draw ==
    /\ pc = "draw"
    /\ pc' = "poll_events"
    /\ UNCHANGED <<m_field, m_snake_positions, m_position, pos,
                   m_game_running, m_score, m_direction, m_last_pressed_key,
                   m_quit, waited_time, fixed, history>>

\* event_t::poll_events, one turn of the while loop. m_keys_held is written
\* only: nothing of the game reads it, and it is left out.
PollEvent(event) ==
    /\ pc = "poll_events"
    /\ m_quit' = IF event.type = "SDL_QUIT" THEN TRUE ELSE m_quit
    /\ m_last_pressed_key' = IF event.type = "SDL_KEYDOWN"
                             THEN event.scancode ELSE m_last_pressed_key
    /\ escape_pending' = (escape_pending \/ event = SDL_KEYDOWN(SDL_SCANCODE_ESCAPE))
    /\ UNCHANGED <<m_field, m_snake_positions, m_position, pos,
                   m_game_running, m_score, m_direction, waited_time, pc,
                   fixed, tick_count>>

\* the loop testing waited_time > max_wait_time_ms
PollReturn_strict ==
    /\ pc = "poll_events"
    /\ pc' = IF waited_time > max_wait_time_ms THEN "tick" ELSE "loop"
    /\ UNCHANGED <<m_field, m_snake_positions, m_position, pos,
                   m_game_running, m_score, m_direction, m_last_pressed_key,
                   m_quit, waited_time, fixed, history>>

\* SDL_PollEvent returns 0: poll_events returns, and the loop tests
\* waited_time >= max_wait_time_ms
PollReturn ==
    /\ pc = "poll_events"
    /\ pc' = IF waited_time >= max_wait_time_ms THEN "tick" ELSE "loop"
    /\ UNCHANGED <<m_field, m_snake_positions, m_position, pos,
                   m_game_running, m_score, m_direction, m_last_pressed_key,
                   m_quit, waited_time, fixed, history>>

\* the body of if(waited_time >= max_wait_time_ms): the switch on the key and
\* handle_movement, up to waited_time = 0 or to the first sample of
\* gen_new_position
Tick ==
    /\ pc = "tick"
    /\ LET key == get_key(m_last_pressed_key)
           direction == SwitchDirection(key, m_direction)
           running == SwitchRunning(key, m_game_running)
       IN  \E fruit_ahead \in
                 is_fruit_in_direction(m_field, m_snake_positions, direction) :
             LET h == handle_movement(direction, fruit_ahead, running,
                                      m_snake_positions, m_field)
             IN  /\ m_direction' = direction
                 /\ m_snake_positions' = h.snake
                 /\ m_field' = h.field
                 /\ m_game_running' = h.running
                 /\ IF h.relocate
                    THEN /\ pos' \in SamplePositions
                         /\ pc' = "gen_new_position"
                         /\ UNCHANGED waited_time
                    ELSE /\ pos' = pos
                         /\ pc' = "loop"
                         /\ waited_time' = 0
    /\ escape_pending' = FALSE
    /\ tick_count' = IF tick_count < 0 THEN tick_count ELSE tick_count + 1
    /\ UNCHANGED <<m_position, m_score, m_last_pressed_key, m_quit, fixed>>

\* the while condition fails: m_score = snake.get_length()
LoopExit ==
    /\ pc = "loop"
    /\ ~(m_game_running /\ ~m_quit)
    /\ m_score' = Len(m_snake_positions)
    /\ pc' = "done"
    /\ UNCHANGED <<m_field, m_snake_positions, m_position, pos,
                   m_game_running, m_direction, m_last_pressed_key, m_quit,
                   waited_time, fixed, history>>

Next ==
    \/ GenResample
    \/ GenReturn
    \/ \E elapsed_time \in ElapsedTimes : LoopEnter(elapsed_time)
    \/ Draw
    \/ \E event \in Events : PollEvent(event)
    \/ PollReturn
    \/ Tick
    \/ LoopExit

Spec == Init /\ [][Next]_vars

(* ---------------------- calls of game_field_t::at ----------------------- *)

\* the fields at is called on: constructed EMPTY, then one cell written
AtFields ==
    {[game_field_t EXCEPT ![c] = t] : c \in Cells, t \in cell_type}

\* a field of any height and width up to MaxAtSide and a call of at with any
\* row and column from one before the field to one past it; no game runs
AtInit ==
    /\ field_width \in 1 .. MaxAtSide
    /\ field_height \in 1 .. MaxAtSide
    /\ m_field \in AtFields
    /\ at_call \in [i : -1 .. MaxAtSide, j : -1 .. MaxAtSide, result : {"none"}]
    /\ m_snake_positions = <<>>
    /\ m_position = position_t(0, 0)
    /\ pos = position_t(0, 0)
    /\ m_game_running = TRUE
    /\ m_score = 0
    /\ m_direction = UP
    /\ m_last_pressed_key = SDL_SCANCODE_G
    /\ m_quit = FALSE
    /\ waited_time = 0
    /\ pc = "at"
    /\ escape_pending = FALSE
    /\ tick_count = -1

\* field.at(i, j) returns
AtCall ==
    /\ pc = "at"
    /\ at_call.result = "none"
    /\ \E r \in at(m_field, at_call.i, at_call.j) :
          at_call' = [at_call EXCEPT !.result = r]
    /\ UNCHANGED <<field_width, field_height, m_field, m_snake_positions,
                   m_position, pos, m_game_running, m_score, m_direction,
                   m_last_pressed_key, m_quit, waited_time, pc, history>>

AtNext == AtCall

AtSpec == AtInit /\ [][AtNext]_vars

(* ------------- the opening of a session on the 10 x 10 field ------------ *)

\* the only key the player touches in the opening is Down
ScenarioEvents ==
    {SDL_KEYDOWN(SDL_SCANCODE_DOWN), SDL_KEYUP(SDL_SCANCODE_DOWN)}

\* a fresh session on the field of the source, its ticks counted
ScenarioInit ==
    /\ GameStart(globals_field_width, globals_field_height)
    /\ tick_count = 0

ScenarioNext ==
    \/ GenResample
    \/ GenReturn
    \/ \E elapsed_time \in ElapsedTimes : LoopEnter(elapsed_time)
    \/ Draw
    \/ \E event \in ScenarioEvents : PollEvent(event)
    \/ PollReturn
    \/ Tick
    \/ LoopExit

ScenarioSpec == ScenarioInit /\ [][ScenarioNext]_vars

TypeOK ==
    /\ m_field \in [Cells -> cell_type]
    /\ m_snake_positions \in Seq(Cells)
    /\ m_position \in Cells
    /\ pos \in SamplePositions
    /\ m_game_running \in BOOLEAN
    /\ m_score \in Nat
    /\ m_direction \in direction_type
    /\ m_last_pressed_key \in Scancodes
    /\ m_quit \in BOOLEAN
    /\ waited_time \in Nat
    /\ pc \in {"gen_new_position", "loop", "draw", "poll_events", "tick",
              "done"}
    /\ field_width = FieldSide /\ field_height = FieldSide
    /\ escape_pending \in BOOLEAN
    /\ tick_count = -1

(* ----------------------- vocabulary of the claims ---------------------- *)

\* the positions the snake occupies
SnakeCells == {m_snake_positions[k] : k \in 1 .. Len(m_snake_positions)}

\* the positions of the snake behind its head
BodyCells == {m_snake_positions[k] : k \in 2 .. Len(m_snake_positions)}

CellsOfType(t) == {c \in Cells : m_field[c] = t}

\* game_loop is between two ticks, the session running
AtTickBoundary ==
    pc \in {"loop", "draw", "poll_events", "tick"} /\ m_game_running

Abs(n) == IF n < 0 THEN -n ELSE n

Reverse(d) ==
    CASE d = UP -> DOWN [] d = DOWN -> UP [] d = LEFT -> RIGHT [] d = RIGHT -> LEFT

\* the key the tick about to run reads
KeyAtTick == get_key(m_last_pressed_key)

\* the cell one step ahead of the head in the heading the tick has just set
Candidate == Step(m_snake_positions[1], m_direction')

(* ------------------------------ claims --------------------------------- *)

\* C1: at every tick boundary of a running session the field holds exactly
\* one SNAKE_HEAD cell, at the head of the snake, SNAKE_BODY on exactly the
\* other len - 1 positions of the snake, at most one FRUIT cell, and EMPTY
\* everywhere else.
C1_FieldMatchesSnake ==
    AtTickBoundary =>
        /\ CellsOfType(SNAKE_HEAD) = {m_snake_positions[1]}
        /\ CellsOfType(SNAKE_BODY) = BodyCells
        /\ Cardinality(CellsOfType(SNAKE_BODY)) = Len(m_snake_positions) - 1
        /\ Cardinality(CellsOfType(FRUIT)) <= 1
        /\ \A c \in Cells \ SnakeCells : m_field[c] \in {EMPTY, FRUIT}

\* a running session whose snake has a head, a body of two cells and a fruit
C1_Witness ==
    /\ AtTickBoundary
    /\ Len(m_snake_positions) = 3
    /\ Cardinality(CellsOfType(FRUIT)) = 1
    /\ waited_time = 0

\* C2: the snake has at least one position, its positions are pairwise
\* distinct and inside the field, and consecutive positions differ by exactly
\* 1 in exactly one coordinate.
C2_SnakeWellFormed ==
    /\ Len(m_snake_positions) >= 1
    /\ \A k, l \in 1 .. Len(m_snake_positions) :
           k # l => m_snake_positions[k] # m_snake_positions[l]
    /\ \A k \in 1 .. Len(m_snake_positions) : InField(m_snake_positions[k])
    /\ \A k \in 1 .. Len(m_snake_positions) - 1 :
           Abs(m_snake_positions[k][1] - m_snake_positions[k + 1][1])
         + Abs(m_snake_positions[k][2] - m_snake_positions[k + 1][2]) = 1

\* a snake of five positions whose head lies next to a position that is
\* neither its neck nor its tail: the next tick can run into it
C2_Witness ==
    /\ Len(m_snake_positions) >= 5
    /\ \E k \in 3 .. Len(m_snake_positions) - 1 :
           Abs(m_snake_positions[1][1] - m_snake_positions[k][1])
         + Abs(m_snake_positions[1][2] - m_snake_positions[k][2]) = 1

\* C3: a tick whose move is accepted makes the snake one longer if the cell
\* ahead in the heading is FRUIT and leaves its length otherwise; no step
\* makes the snake shorter.
C3_LengthOfTick ==
    [][ /\ Len(m_snake_positions') >= Len(m_snake_positions)
        /\ (pc = "tick" /\ m_snake_positions' # m_snake_positions) =>
              Len(m_snake_positions') =
                 IF m_field[Candidate] = FRUIT
                 THEN Len(m_snake_positions) + 1
                 ELSE Len(m_snake_positions) ]_vars

\* a tick has just eaten the second fruit of a snake that moved in between
C3_Witness ==
    /\ pc = "gen_new_position"
    /\ Len(m_snake_positions) = 3
    /\ m_snake_positions[1][1] # m_snake_positions[3][1]
    /\ m_snake_positions[1][2] # m_snake_positions[3][2]

\* C4: the cell the fruit is placed on is EMPTY when it is chosen, and at
\* every tick boundary of a running session the fruit lies on a cell the
\* snake does not occupy.
C4_FruitOnFreeCell ==
    /\ [](AtTickBoundary =>
             m_position \notin SnakeCells /\ m_field[m_position] = FRUIT)
    /\ [][ (pc = "gen_new_position" /\ pc' # "gen_new_position") =>
              /\ m_field[m_position'] = EMPTY
              /\ m_position' \notin SnakeCells
              /\ m_field'[m_position'] = FRUIT ]_vars

\* the fruit has been placed again after the snake ate two fruits
C4_Witness ==
    /\ AtTickBoundary
    /\ waited_time = 0
    /\ Len(m_snake_positions) = 3
    /\ m_field[m_position] = FRUIT

\* C5: a tick whose key is the reverse of the heading leaves the heading, and
\* no tick sets the heading to the reverse of the heading before it.
C5_NoReversal ==
    [][ /\ m_direction' # Reverse(m_direction)
        /\ (pc = "tick" /\
            \/ KeyAtTick = SDL_SCANCODE_UP /\ m_direction = DOWN
            \/ KeyAtTick = SDL_SCANCODE_DOWN /\ m_direction = UP
            \/ KeyAtTick = SDL_SCANCODE_LEFT /\ m_direction = RIGHT
            \/ KeyAtTick = SDL_SCANCODE_RIGHT /\ m_direction = LEFT)
           => m_direction' = m_direction ]_vars

\* a tick has just run (and grown the snake) with the key Left pressed
\* while heading Right
C5_Witness ==
    /\ pc = "gen_new_position"
    /\ waited_time >= max_wait_time_ms
    /\ m_last_pressed_key = SDL_SCANCODE_LEFT
    /\ m_direction = RIGHT

\* C6: a tick whose candidate head position is outside the field clears the
\* running flag and leaves the snake; the loop then ends at once, and the
\* score it reports is the length of the snake, the one before the tick.
C6_OffFieldEnds ==
    /\ [][ (pc = "tick" /\ ~InField(Candidate)) =>
              /\ ~m_game_running'
              /\ m_snake_positions' = m_snake_positions
              /\ pc' = "loop" ]_vars
    /\ [][ (pc = "loop" /\ ~m_game_running) =>
              /\ pc' = "done"
              /\ m_score' = Len(m_snake_positions)
              /\ m_snake_positions' = m_snake_positions ]_vars

\* the session of a snake of two has ended, with no quit, on a heading that
\* leads off the field, and reports 2
C6_Witness ==
    /\ pc = "done"
    /\ ~m_quit
    /\ KeyAtTick # SDL_SCANCODE_ESCAPE
    /\ ~InField(Step(m_snake_positions[1], m_direction))
    /\ Len(m_snake_positions) = 2
    /\ m_score = 2

\* C7: a tick whose candidate cell is inside the field and SNAKE_BODY or
\* SNAKE_HEAD clears the running flag; a tick whose candidate cell is EMPTY
\* or FRUIT moves the head there and clears the flag only for the key Escape.
C7_CollisionEnds ==
    [][ (pc = "tick" /\ InField(Candidate)) =>
           /\ m_field[Candidate] \in {SNAKE_BODY, SNAKE_HEAD} =>
                 ~m_game_running' /\ m_snake_positions' = m_snake_positions
           /\ m_field[Candidate] \in {EMPTY, FRUIT} =>
                 /\ m_snake_positions'[1] = Candidate
                 /\ m_game_running' = (KeyAtTick # SDL_SCANCODE_ESCAPE) ]_vars

\* the session has ended, with no quit, on a heading that leads into a body
\* cell that is not the tail
C7_Witness ==
    /\ pc = "done"
    /\ ~m_quit
    /\ KeyAtTick # SDL_SCANCODE_ESCAPE
    /\ InField(Step(m_snake_positions[1], m_direction))
    /\ m_field[Step(m_snake_positions[1], m_direction)] = SNAKE_BODY
    /\ Step(m_snake_positions[1], m_direction)
          # m_snake_positions[Len(m_snake_positions)]

\* C8: the tick that reads the key Escape clears the running flag, and the
\* score, which is the snake's length when the loop exits, is the length the
\* snake has when that tick starts: the tick leaves the length.
C8_QuitKeepsScore ==
    [][ (pc = "tick" /\ KeyAtTick = SDL_SCANCODE_ESCAPE) =>
           /\ ~m_game_running'
           /\ Len(m_snake_positions') = Len(m_snake_positions) ]_vars

\* C9: once the running flag is cleared, the snake, the field, the fruit and
\* the heading never change again, and the flag stays cleared.
C9_EndedIsTerminal ==
    [][ ~m_game_running =>
           /\ ~m_game_running'
           /\ UNCHANGED <<m_snake_positions, m_field, m_position,
                          m_direction>> ]_vars

\* C10: a fruit placement terminates with an EMPTY cell: whenever
\* gen_new_position is sampling, some cell it can draw is EMPTY.
C10_PlacementTerminates ==
    pc = "gen_new_position" => \E c \in SamplePositions : m_field[c] = EMPTY

\* C11: on the 10 x 10 field a fresh session starts with a snake of length 1
\* at (4,4), heading Up; the key Down leaves the heading Up; as long as no
\* fruit was eaten the head is at (4 - n, 4) after n ticks, so at (0,4) after
\* 4 ticks, and the 5th tick ends the session, which reports the score 1.
C11_OpeningScenario ==
    /\ m_direction = UP
    /\ tick_count = 0 => m_snake_positions = <<position_t(4, 4)>>
    /\ (tick_count \in 0 .. 4 /\ Len(m_snake_positions) = 1) =>
          /\ m_snake_positions = <<position_t(4 - tick_count, 4)>>
          /\ m_game_running
    /\ (tick_count >= 5 /\ Len(m_snake_positions) = 1) =>
          /\ tick_count = 5
          /\ m_snake_positions = <<position_t(0, 4)>>
          /\ ~m_game_running
          /\ pc \in {"loop", "done"}
          /\ pc = "done" => m_score = 1

\* the session has ended after the 5th tick with the key Down pressed, the
\* snake of length 1 at (0,4), and reports 1
C11_Witness ==
    /\ pc = "done"
    /\ tick_count = 5
    /\ m_last_pressed_key = SDL_SCANCODE_DOWN
    /\ m_snake_positions = <<position_t(0, 4)>>
    /\ m_score = 1

\* C12: for every height and width of the field and every row and column,
\* at returns ERROR exactly when the row is outside 0 .. height - 1 or the
\* column outside 0 .. width - 1, and the stored cell otherwise.
C12_AtChecksBounds ==
    at_call.result # "none" =>
        LET p == position_t(at_call.i, at_call.j)
        IN  /\ (at_call.result = ERROR) <=> ~InField(p)
            /\ InField(p) => at_call.result = m_field[p]

\* C13: an iteration of the loop runs a tick if and only if waited_time,
\* with the elapsed time added, has reached max_wait_time_ms; waited_time is
\* set to zero exactly by a tick that completes and otherwise only grows, at
\* the start of an iteration; an iteration runs at most one tick.
C13_TickSchedule ==
    [][ /\ (pc = "poll_events" /\ pc' # "poll_events") =>
              /\ pc' \in {"tick", "loop"}
              /\ (pc' = "tick") <=> (waited_time >= max_wait_time_ms)
        /\ (pc' = "tick" /\ pc # "tick") => pc = "poll_events"
        /\ pc = "tick" => pc' \in {"loop", "gen_new_position"}
        /\ (pc \in {"tick", "gen_new_position"} /\ pc' = "loop") =>
              waited_time' = 0
        /\ waited_time' # waited_time =>
              IF waited_time' = 0
              THEN pc \in {"tick", "gen_new_position"} /\ pc' = "loop"
              ELSE pc = "loop" /\ pc' = "draw" /\ waited_time' > waited_time
      ]_vars

\* a single tick has run on a waited_time of three times the threshold: the
\* snake, which grows by one in a tick, has length 2
C13_Witness ==
    /\ pc = "gen_new_position"
    /\ waited_time >= 3 * max_wait_time_ms
    /\ Len(m_snake_positions) = 2

\* C14: the steps of an iteration outside the tick (accumulating the time,
\* drawing, polling, leaving the loop) leave the field, the snake, the
\* fruit, the heading and the running flag.
C14_NoTickNoChange ==
    [][ (pc = "loop" \/ pc = "draw" \/ pc = "poll_events") =>
           UNCHANGED <<m_field, m_snake_positions, m_position, m_direction,
                       m_game_running>> ]_vars

\* an iteration of a game in progress has drawn and polled and ended
\* without a tick: waited_time is below the threshold and not zero
C14_Witness ==
    /\ pc = "loop"
    /\ waited_time > 0
    /\ waited_time < max_wait_time_ms
    /\ Len(m_snake_positions) >= 2
    /\ m_game_running

\* C15, as claimed: an iteration polls, then draws, then ticks: no step
\* goes from drawing to polling, and none from the tick to either.
C15_PollDrawTick ==
    [][ /\ pc = "draw" => pc' # "poll_events"
        /\ pc = "tick" => (pc' # "draw" /\ pc' # "poll_events") ]_vars

\* C15, amended: an iteration draws, then polls, then ticks: drawing is
\* entered from the top of the loop only, polling from drawing only, the
\* tick from polling only, and nothing of the iteration follows the tick.
C15_DrawPollTick ==
    [][ /\ (pc' = "draw" /\ pc # "draw") => pc = "loop"
        /\ pc = "draw" => pc' = "poll_events"
        /\ (pc' = "poll_events" /\ pc # "poll_events") => pc = "draw"
        /\ pc = "poll_events" =>
              (pc' = "poll_events" \/ pc' = "tick" \/ pc' = "loop")
        /\ (pc' = "tick" /\ pc # "tick") => pc = "poll_events"
        /\ pc = "tick" => (pc' = "loop" \/ pc' = "gen_new_position") ]_vars

\* an iteration has drawn, polled the key Up and run its tick, which ate a
\* fruit
C15_Witness ==
    /\ pc = "gen_new_position"
    /\ waited_time >= max_wait_time_ms
    /\ m_last_pressed_key = SDL_SCANCODE_UP
    /\ m_direction = UP
    /\ Len(m_snake_positions) >= 2

\* C16: once Escape was pressed in a running session, the next tick ends the
\* session, whichever keys were pressed after it.
C16_EscapeHonoured ==
    [][ (pc = "tick" /\ escape_pending) => ~m_game_running' ]_vars

\* C17: every cell a tick reads or writes lies inside the field: the cell
\* ahead of the head that is_fruit_in_direction looks up, the positions of the
\* snake update_field writes, and the samples gen_new_position reads.
C17_AccessInsideField ==
    [][ /\ pc = "tick" =>
              /\ InField(Candidate)
              /\ \A k \in 1 .. Len(m_snake_positions') :
                    InField(m_snake_positions'[k])
        /\ pc = "gen_new_position" => InField(pos) ]_vars

\* the tick about to run is rejected: the cell ahead in its heading is
\* outside the field, or neither EMPTY nor FRUIT
Rejected ==
    \/ ~InField(Candidate)
    \/ m_field[Candidate] \notin {EMPTY, FRUIT}

\* C18, as claimed: a rejected tick leaves the snake, the field and the
\* fruit, and its only effect is that the session has ended: the heading,
\* the score and what the events left are as before.
C18_RejectedOnlyEnds ==
    [][ (pc = "tick" /\ Rejected) =>
           /\ ~m_game_running'
           /\ pc' = "loop"
           /\ UNCHANGED <<m_snake_positions, m_field, m_position>>
           /\ UNCHANGED <<m_direction, m_score, m_last_pressed_key, m_quit>>
      ]_vars

\* C18, amended: a rejected tick leaves the snake, the field and the fruit;
\* it ends the session, returns to the loop with the timer reset, and may
\* have turned the heading.
C18_RejectedLeavesGame ==
    [][ (pc = "tick" /\ Rejected) =>
           /\ ~m_game_running'
           /\ pc' = "loop"
           /\ waited_time' = 0
           /\ UNCHANGED <<m_snake_positions, m_field, m_position>>
           /\ UNCHANGED <<m_score, m_last_pressed_key, m_quit>>
      ]_vars

\* the session has ended on a tick that turned a snake of three, which had
\* last moved along the left edge, to the left and off the field
C18_Witness ==
    /\ pc = "done"
    /\ ~m_quit
    /\ m_last_pressed_key = SDL_SCANCODE_LEFT
    /\ m_direction = LEFT
    /\ Len(m_snake_positions) = 3
    /\ m_snake_positions[1][2] = 0
    /\ m_snake_positions[2][2] = 0
    /\ m_score = 3

\* C19: a tick whose cell ahead is the cell of the snake's tail is rejected:
\* the running flag is cleared and the snake and the field stay, although a
\* move would have freed that cell.
C19_TailCellBlocks ==
    [][ (/\ pc = "tick"
         /\ Len(m_snake_positions) >= 2
         /\ Candidate = m_snake_positions[Len(m_snake_positions)]) =>
           /\ ~m_game_running'
           /\ UNCHANGED <<m_snake_positions, m_field>> ]_vars

\* the session of a snake of four or more has ended, with no quit, on a
\* heading that leads onto its tail, which is not next to the head in the
\* list
C19_Witness ==
    /\ pc = "done"
    /\ ~m_quit
    /\ KeyAtTick # SDL_SCANCODE_ESCAPE
    /\ Len(m_snake_positions) >= 4
    /\ Step(m_snake_positions[1], m_direction)
          = m_snake_positions[Len(m_snake_positions)]
    /\ m_score = Len(m_snake_positions)

====
